---- MODULE Spec2Model ----
(***************************************************************************)
(* metwp: the retrieval/selection loop of fetch.py (main) together with    *)
(* the collaborators of api/met.py it calls.  One behaviour is one run of  *)
(* the command-line tool.                                                  *)
(***************************************************************************)
EXTENDS Integers, Sequences, FiniteSets, TLC

\* ------------------------------------------------------------------ bounds
\* longest search result of the base specification
MaxLen == 4
\* largest TargetCount of the base specification
MaxCount == 2
\* longest search result of the window specification
MaxWindowLen == 21
\* largest TargetCount of the window specification
MaxWindowCount == 1

\* ------------------------------------------------------- program constants
NUM_RETRIES == 3
FUZZY_SEARCH_THRESHOLD == 20

\* ------------------------------------------------------------ Python values
\* Values are tagged with their Python type, so that a comparison of values
\* of different types is False, rather than an error.
PyNone == [tag |-> "NoneType"]
PyStr(s) == [tag |-> "str", val |-> s]
PyInt(i) == [tag |-> "int", val |-> i]
PyBool(b) == [tag |-> "bool", val |-> b]

\* a == b
PyEq(a, b) == /\ a.tag = b.tag
              /\ (a.tag = "NoneType" \/ a.val = b.val)

\* the truth value of v in a condition
Truthy(v) == CASE v.tag = "NoneType" -> FALSE
               [] v.tag = "bool" -> v.val
               [] v.tag = "int" -> v.val # 0
               [] v.tag = "str" -> v.val # ""

\* d.get(k): the value under key k, None when the dict has no such key
DictGet(d, k) == IF k \in DOMAIN d THEN d[k] ELSE PyNone

\* ---------------------------------------------------------- Artwork Source
\* How the source holds the primary image of an object: the key is absent
\* from the record, the key holds the empty string, or it holds a URL.
ImageKinds == {"absent", "empty", "url"}

ImageUrl(id) == "https://images.example/" \o ToString(id)

\* The record the detail request returns for object id, given the source's
\* catalogue (object id -> image kind).
DetailsResponse(catalogue, id) ==
    LET kind == IF id \in DOMAIN catalogue THEN catalogue[id] ELSE "absent"
    IN  IF kind = "absent"
        THEN [k \in {PyStr("objectID")} |-> PyInt(id)]
        ELSE [k \in {PyStr("objectID"), PyStr("primaryImage")} |->
                 IF k = PyStr("objectID") THEN PyInt(id)
                 ELSE IF kind = "empty" THEN PyStr("") ELSE PyStr(ImageUrl(id))]

\* The catalogues over object ids 1..n: every object has an image or lacks
\* it, and the objects of one catalogue that lack it lack it the same way.
Catalogues(n) == UNION {[1..n -> {kind, "url"}] : kind \in {"absent", "empty"}}

Asc(n) == [i \in 1..n |-> i]
Desc(n) == [i \in 1..n |-> n + 1 - i]

\* ------------------------------------------------------------------- state
VARIABLES
    args_random,   \* args.random
    args_report,   \* args.report
    total_count,   \* total_count
    catalogue,     \* the Artwork Source: object id -> image kind
    source_ids,    \* the Artwork Source: the answer to the search
    object_ids,    \* object_ids
    count,         \* count
    attempt,       \* attempt
    viewed,        \* viewed
    object_id,     \* object_id
    artwork,       \* artwork
    pc,            \* position in main
    exit_code,     \* process exit status, -1 while running
    failure,       \* what ended the run
    tried,         \* object ids fetched in the current slot, in order
    skipped,       \* reason of the last skip message
    saved,         \* object ids handed to download_artwork, in order
    reported,      \* payloads handed to generate_report, in order
    abandoned,     \* slots that ended with the retry budget used up
    searched       \* whether search_artwork has been called

vars == <<args_random, args_report, total_count, catalogue, source_ids,
          object_ids, count, attempt, viewed, object_id, artwork, pc,
          exit_code, failure, tried, skipped, saved, reported,
          abandoned, searched>>

config == <<args_random, args_report, total_count, catalogue, source_ids>>

\* ------------------------------------------------------------ pure helpers
\* check_if_exists(obj_id, objects)
check_if_exists(obj_id, objects) ==
    \E i \in 1..Len(objects) :
        Truthy(DictGet(objects[i], PyBool(PyEq(PyStr("id"), obj_id))))

\* variant: only a missing key counts as a missing image
MissingImageNoneOnly(image_url) == PyEq(image_url, PyNone)

\* image_url is None or len(image_url) == 0
MissingImage(image_url) ==
    PyEq(image_url, PyNone) \/ (image_url.tag = "str" /\ image_url.val = "")

\* variant: the whole search result, no slice
FuzzyWindowWhole(ids) == ids

\* object_ids[0:FUZZY_SEARCH_THRESHOLD]
FuzzyWindow(ids) ==
    SubSeq(ids, 1, IF Len(ids) < FUZZY_SEARCH_THRESHOLD
                   THEN Len(ids) ELSE FUZZY_SEARCH_THRESHOLD)

\* variant: a slot goes on where the slots before it started
SequentialOffset(ids, i) ==
    IF i + count + 1 \in DOMAIN ids THEN {ids[i + count + 1]} ELSE {}

\* variant: object_ids[0] on every attempt
SequentialFirst(ids, i) == IF 1 \in DOMAIN ids THEN {ids[1]} ELSE {}

\* object_ids[attempt]: the set holding the element, empty when the index
\* is out of range (IndexError)
Sequential(ids, i) == IF i + 1 \in DOMAIN ids THEN {ids[i + 1]} ELSE {}

\* choice(seq): the elements it can return, none when seq is empty
\* (IndexError)
Choice(seq) == {seq[i] : i \in DOMAIN seq}

\* the candidates of one attempt
Candidates(random, ids, i) ==
    IF ~random THEN Sequential(ids, i) ELSE Choice(FuzzyWindow(ids))

\* ------------------------------------------------------------------- exits
Exit(code, why) ==
    /\ pc' = "exit"
    /\ exit_code' = code
    /\ failure' = why

\* -------------------------------------------------------------------- init
InitLocals ==
    /\ object_ids = <<>>
    /\ count = 0
    /\ attempt = 0
    /\ viewed = <<>>
    /\ object_id = 0
    /\ artwork = [k \in {} |-> PyNone]
    /\ pc = "validate"
    /\ exit_code = -1
    /\ failure = "none"
    /\ tried = <<>>
    /\ skipped = "none"
    /\ saved = <<>>
    /\ reported = <<>>
    /\ abandoned = 0
    /\ searched = FALSE

Init ==
    /\ args_random \in BOOLEAN
    /\ args_report \in BOOLEAN
    /\ total_count \in 0..MaxCount
    /\ catalogue \in Catalogues(MaxLen)
    /\ source_ids \in {Asc(n) : n \in 0..MaxLen} \cup {Desc(n) : n \in 0..MaxLen}
    /\ InitLocals

\* Search results around the fuzzy-search window; only the first two objects
\* may lack an image.
InitWindow ==
    /\ args_random \in BOOLEAN
    /\ args_report \in BOOLEAN
    /\ total_count \in 0..MaxWindowCount
    /\ catalogue \in {[i \in 1..MaxWindowLen |->
                          IF i = 1 THEN a ELSE IF i = 2 THEN b ELSE "url"] :
                      a \in ImageKinds, b \in {"absent", "url"}}
    /\ source_ids \in {Asc(n) : n \in {0} \cup
                          ((FUZZY_SEARCH_THRESHOLD - 1)..MaxWindowLen)}
    /\ InitLocals

\* ----------------------------------------------------------------- actions
\* validate_args(args) returns; total_count, count and viewed are set
ValidateOk ==
    /\ pc = "validate"
    /\ pc' = "search"
    /\ count' = 0
    /\ viewed' = <<>>
    /\ UNCHANGED <<config, object_ids, attempt, object_id, artwork, exit_code,
                   failure, tried, skipped, saved, reported,
                   abandoned, searched>>

\* variant: the message is printed, sys.exit(1) is missing
ValidateExceptContinue ==
    /\ pc' = "search"
    /\ failure' = "args"
    /\ UNCHANGED exit_code

\* except ArgumentException: print the message, sys.exit(1)
ValidateExcept == Exit(1, "args")

\* validate_args(args) raises ArgumentException
ValidateFails ==
    /\ pc = "validate"
    /\ ValidateExcept
    /\ UNCHANGED <<config, object_ids, count, attempt, viewed, object_id,
                   artwork, tried, skipped, saved, reported,
                   abandoned, searched>>

\* object_ids = search_artwork(query=args.query)
SearchOk ==
    /\ pc = "search"
    /\ object_ids' = source_ids
    /\ searched' = TRUE
    /\ pc' = "outer"
    /\ UNCHANGED <<config, count, attempt, viewed, object_id, artwork,
                   exit_code, failure, tried, skipped, saved, reported,
                   abandoned>>

\* search_artwork fails
SearchFails ==
    /\ pc = "search"
    /\ Exit(1, "search")
    /\ searched' = TRUE
    /\ UNCHANGED <<config, object_ids, count, attempt, viewed, object_id,
                   artwork, tried, skipped, saved, reported,
                   abandoned>>

\* variant: attempt is set to 0 once, before the outer loop
StartSlotCarryOver == attempt' = attempt

\* attempt = 0 at the top of the outer loop's body
StartSlot == attempt' = 0

\* while count < total_count: attempt = 0
OuterLoop ==
    /\ pc = "outer"
    /\ IF count < total_count
       THEN /\ StartSlot
            /\ tried' = <<>>
            /\ pc' = "inner"
       ELSE /\ pc' = "report"
            /\ UNCHANGED <<attempt, tried>>
    /\ UNCHANGED <<config, object_ids, count, viewed, object_id, artwork,
                   exit_code, failure, skipped, saved, reported,
                   abandoned, searched>>

\* variant: a slot that used up its budget is not counted
AbandonBackfill ==
    /\ count' = count
    /\ pc' = "outer"

\* the retry budget of the slot is used up: the loop ends, count += 1
Abandon ==
    /\ count' = count + 1
    /\ pc' = "outer"

\* while attempt < NUM_RETRIES; when the loop ends, count += 1
InnerLoop ==
    /\ pc = "inner"
    /\ IF attempt < NUM_RETRIES
       THEN /\ pc' = "select"
            /\ UNCHANGED <<count, abandoned>>
       ELSE /\ Abandon
            /\ abandoned' = abandoned + 1
    /\ UNCHANGED <<config, object_ids, attempt, viewed, object_id, artwork,
                   exit_code, failure, tried, skipped, saved, reported,
                   searched>>

\* object_id = object_ids[attempt] if not args.random
\*             else choice(object_ids[0:FUZZY_SEARCH_THRESHOLD])
Select ==
    /\ pc = "select"
    /\ LET cands == Candidates(args_random, object_ids, attempt)
       IN  IF cands = {}
           THEN /\ Exit(1, "IndexError")
                /\ UNCHANGED object_id
           ELSE /\ \E id \in cands : object_id' = id
                /\ pc' = "fetch"
                /\ UNCHANGED <<exit_code, failure>>
    /\ UNCHANGED <<config, object_ids, count, attempt, viewed, artwork, tried,
                   skipped, saved, reported,
                   abandoned, searched>>

\* artwork = get_artwork(object_id=object_id)
GetArtworkOk ==
    /\ pc = "fetch"
    /\ artwork' = DetailsResponse(catalogue, object_id)
    /\ tried' = Append(tried, object_id)
    /\ pc' = "filter"
    /\ UNCHANGED <<config, object_ids, count, attempt, viewed, object_id,
                   exit_code, failure, skipped, saved, reported,
                   abandoned, searched>>

\* variant: a failed detail request counts as one more rejected attempt
GetArtworkExceptRetry ==
    /\ attempt' = attempt + 1
    /\ pc' = "inner"
    /\ UNCHANGED <<exit_code, failure, tried>>

\* what get_artwork does with an exception of the detail request
GetArtworkExcept ==
    /\ Exit(1, "fetch")
    /\ UNCHANGED <<attempt, tried>>

\* get_artwork: the detail request raises
GetArtworkFails ==
    /\ pc = "fetch"
    /\ GetArtworkExcept
    /\ UNCHANGED <<config, object_ids, count, viewed, object_id, artwork,
                   skipped, saved, reported,
                   abandoned, searched>>

\* variant: the two skip messages are exchanged
DecisionReasonsSwapped(record, seen) ==
    LET image_url == DictGet(record, PyStr("primaryImage"))
        artwork_id == DictGet(record, PyStr("objectID"))
        has_already_been_downloaded == check_if_exists(artwork_id, seen)
    IN  IF MissingImage(image_url) THEN "already downloaded"
        ELSE IF has_already_been_downloaded THEN "missing image"
        ELSE "accept"

\* the outcome of the checks on the fetched record
Decision(record, seen) ==
    LET image_url == DictGet(record, PyStr("primaryImage"))
        artwork_id == DictGet(record, PyStr("objectID"))
        has_already_been_downloaded == check_if_exists(artwork_id, seen)
    IN  IF MissingImage(image_url) THEN "missing image"
        ELSE IF has_already_been_downloaded THEN "already downloaded"
        ELSE "accept"

\* variant: the skip message is printed, attempt += 1 is missing
RejectNoIncrement(reason) ==
    /\ skipped' = reason
    /\ attempt' = attempt
    /\ pc' = "inner"

\* a rejecting branch: print the skip message, attempt += 1
Reject(reason) ==
    /\ skipped' = reason
    /\ attempt' = attempt + 1
    /\ pc' = "inner"

\* the if / elif / else on the fetched record
Filter ==
    /\ pc = "filter"
    /\ LET d == Decision(artwork, viewed)
       IN  IF d = "accept"
           THEN /\ pc' = "download"
                /\ UNCHANGED <<attempt, skipped>>
           ELSE Reject(d)
    /\ UNCHANGED <<config, object_ids, count, viewed, object_id, artwork,
                   exit_code, failure, tried, saved, reported,
                   abandoned, searched>>

\* download_artwork(object_id=artwork_id, ...) returns
DownloadOk ==
    /\ pc = "download"
    /\ saved' = Append(saved, DictGet(artwork, PyStr("objectID")).val)
    /\ pc' = "append"
    /\ UNCHANGED <<config, object_ids, count, attempt, viewed, object_id,
                   artwork, exit_code, failure, tried, skipped, reported,
                   abandoned, searched>>

\* variant: the error is printed, exit(1) is missing
DownloadExceptSwallow ==
    /\ pc' = "append"
    /\ failure' = "save"
    /\ UNCHANGED exit_code

\* what download_artwork does with an exception of the download or the write
DownloadExcept == Exit(1, "save")

\* download_artwork: the download or the write raises
DownloadFails ==
    /\ pc = "download"
    /\ DownloadExcept
    /\ UNCHANGED <<config, object_ids, count, attempt, viewed, object_id,
                   artwork, tried, skipped, saved, reported,
                   abandoned, searched>>

\* variant: no break after the append
AfterAppendNoBreak ==
    /\ count' = count
    /\ pc' = "inner"

\* where control goes after viewed.append(artwork): break, then count += 1
AfterAppend ==
    /\ count' = count + 1
    /\ pc' = "outer"

\* print_artwork; viewed.append(artwork); break; count += 1
AppendViewed ==
    /\ pc = "append"
    /\ viewed' = Append(viewed, artwork)
    /\ AfterAppend
    /\ UNCHANGED <<config, object_ids, attempt, object_id, artwork, exit_code,
                   failure, tried, skipped, saved, reported,
                   abandoned, searched>>

\* variant: the report is written whatever args.report says
GenerateReportAlways == reported' = Append(reported, viewed)

\* if args.report: generate_report(art=viewed), else a notice is printed
GenerateReport ==
    reported' = IF args_report THEN Append(reported, viewed) ELSE reported

\* the report, then sys.exit(0)
Report ==
    /\ pc = "report"
    /\ GenerateReport
    /\ Exit(0, "none")
    /\ UNCHANGED <<config, object_ids, count, attempt, viewed, object_id,
                   artwork, tried, skipped, saved,
                   abandoned, searched>>

Next ==
    \/ ValidateOk
    \/ ValidateFails
    \/ SearchOk
    \/ SearchFails
    \/ OuterLoop
    \/ InnerLoop
    \/ Select
    \/ GetArtworkOk
    \/ GetArtworkFails
    \/ Filter
    \/ DownloadOk
    \/ DownloadFails
    \/ AppendViewed
    \/ Report

Spec == Init /\ [][Next]_vars

SpecWindow == InitWindow /\ [][Next]_vars

\* The filter on its own: main stands at the if / elif / else with any
\* fetched record and any viewed list of at most MaxCount records, records
\* without an image and records of the same object included.
FilterRecords ==
    {DetailsResponse(cat, id) : cat \in Catalogues(MaxLen), id \in 1..MaxLen}

ViewedLists ==
    UNION {[1..n -> FilterRecords] : n \in 0..MaxCount}

InitFilter ==
    /\ args_random = FALSE
    /\ args_report = FALSE
    /\ catalogue = [i \in 1..MaxLen |-> "url"]
    /\ source_ids = Asc(MaxLen)
    /\ object_ids = source_ids
    /\ viewed \in ViewedLists
    /\ artwork \in FilterRecords
    /\ attempt \in 0..(NUM_RETRIES - 1)
    /\ count = Len(viewed)
    /\ total_count = count + 1
    /\ object_id = DictGet(artwork, PyStr("objectID")).val
    /\ tried = <<object_id>>
    /\ pc = "filter"
    /\ exit_code = -1
    /\ failure = "none"
    /\ skipped = "none"
    /\ saved = [i \in 1..Len(viewed) |-> DictGet(viewed[i], PyStr("objectID")).val]
    /\ reported = <<>>
    /\ abandoned = 0
    /\ searched = TRUE

NextFilter == Filter

SpecFilter == InitFilter /\ [][NextFilter]_vars

\* ----------------------------------------------------------- shared notions
\* the identifiers of the records of a sequence of records
Ids(records) == [i \in 1..Len(records) |-> DictGet(records[i], PyStr("objectID")).val]

NoRepeat(seq) == \A i, j \in 1..Len(seq) : i # j => seq[i] # seq[j]

HasImage(id) == id \in DOMAIN catalogue /\ catalogue[id] = "url"

TypeOK ==
    /\ pc \in {"validate", "search", "outer", "inner", "select", "fetch",
               "filter", "download", "append", "report", "exit"}
    /\ exit_code \in {-1, 0, 1}
    /\ count \in 0..total_count
    /\ attempt \in 0..NUM_RETRIES

\* the slots started so far: the finished ones and the one in progress
SlotsStarted ==
    IF pc \in {"inner", "select", "fetch", "filter", "download", "append"}
    THEN count + 1 ELSE count

\* the run was ended by a collaborator: the search, a detail request or a save
CollaboratorFailure == failure \in {"search", "fetch", "save"}

\* ------------------------------------------------------------------ claims
\* C1: viewed never holds two records with the same identifier.
C1_NoDuplicateIds == NoRepeat(Ids(viewed))

\* C2: viewed never holds more records than TargetCount, nor more than the
\* number of slots started so far.
C2_ViewedBounded ==
    /\ Len(viewed) <= total_count
    /\ Len(viewed) <= SlotsStarted

\* C2 witness: a finished run that filled both of two slots.
C2_Witness ==
    /\ pc = "exit"
    /\ exit_code = 0
    /\ total_count = 2
    /\ Len(viewed) = 2

C4_RandomWithinWindow ==
    args_random =>
        /\ pc = "fetch" =>
              \E i \in 1..Len(object_ids) :
                  i <= FUZZY_SEARCH_THRESHOLD /\ object_ids[i] = object_id
        /\ \A k \in 1..Len(tried) :
              \E i \in 1..Len(object_ids) :
                  i <= FUZZY_SEARCH_THRESHOLD /\ object_ids[i] = tried[k]

\* C4 witness: a search result longer than the window, and the last element
\* of the window is the candidate.
C4_Witness ==
    /\ args_random
    /\ pc = "fetch"
    /\ Len(object_ids) > FUZZY_SEARCH_THRESHOLD
    /\ object_id = object_ids[FUZZY_SEARCH_THRESHOLD]

\* C5: candidate selection never indexes outside the search result.
C5_NoIndexError == failure # "IndexError"

\* C6: a run that no collaborator ended finishes with exactly TargetCount
\* slots processed, however many of them accepted an artwork.
C6_ExactlyTargetCountSlots ==
    (pc = "exit" /\ failure # "args" /\ ~CollaboratorFailure) =>
        count = total_count

\* the first three records of the search result all lack an image
FirstThreeLackImage ==
    /\ Len(object_ids) >= NUM_RETRIES
    /\ \A i \in 1..NUM_RETRIES : ~HasImage(object_ids[i])

\* C7: a slot whose NUM_RETRIES attempts were all rejected appends nothing
\* and saves nothing, the loop goes on to the next slot, and the run still
\* ends with exit code 0 unless a collaborator ends it; a count=1 run whose
\* first three records lack images ends with viewed empty and exit code 0.
C7_AbandonedSlotIsSoft ==
    /\ [][(pc = "inner" /\ attempt = NUM_RETRIES) =>
             /\ viewed' = viewed
             /\ saved' = saved
             /\ count' = count + 1
             /\ pc' = "outer"
             /\ exit_code' = -1]_vars
    /\ [](Len(viewed) + abandoned = count)
    /\ []((abandoned > 0 /\ pc = "exit" /\ ~CollaboratorFailure) =>
             (exit_code = 0 /\ failure = "none"))
    /\ []((~args_random /\ total_count = 1 /\ FirstThreeLackImage
           /\ pc = "exit" /\ ~CollaboratorFailure) =>
             (viewed = <<>> /\ saved = <<>> /\ exit_code = 0))

\* C7 witness: a count=1 non-random run over three records without images
\* has ended, its only slot abandoned.
C7_Witness ==
    /\ ~args_random
    /\ total_count = 1
    /\ FirstThreeLackImage
    /\ pc = "exit"
    /\ exit_code = 0
    /\ abandoned = 1
    /\ Len(tried) = NUM_RETRIES

\* C8: a failed detail request ends the process with code 1 at once: viewed,
\* the saves, the reports, the slot and attempt counters stay as they were,
\* and nothing happens after the exit.
C8_FetchFailureIsFatal ==
    /\ [][GetArtworkFails =>
             /\ pc' = "exit"
             /\ exit_code' = 1
             /\ viewed' = viewed
             /\ saved' = saved
             /\ reported' = reported
             /\ count' = count
             /\ attempt' = attempt]_vars
    /\ [][pc # "exit"]_vars
    /\ [](failure = "fetch" =>
             (pc = "exit" /\ exit_code = 1 /\ reported = <<>>
              /\ Ids(viewed) = saved))

\* C8 witness: the detail request of the second slot failed after the first
\* slot had accepted a record.
C8_Witness ==
    /\ failure = "fetch"
    /\ pc = "exit"
    /\ count = 1
    /\ Len(viewed) = 1

\* C9: a non-random count=2 run over a search result whose first two records
\* have images ends with viewed = [first record, second record].
C9_ScenarioD ==
    (/\ ~args_random
     /\ total_count = 2
     /\ Len(object_ids) >= 2
     /\ HasImage(object_ids[1])
     /\ HasImage(object_ids[2])
     /\ pc = "exit"
     /\ exit_code = 0) =>
        /\ Ids(viewed) = <<object_ids[1], object_ids[2]>>
        /\ saved = <<object_ids[1], object_ids[2]>>

\* the indexes, among the first three results, of the records with an image
ImageIndexes == {i \in 1..NUM_RETRIES : HasImage(object_ids[i])}

LowestOf(S) == CHOOSE i \in S : \A j \in S : i <= j

\* C10: a finished non-random count=1 run over at least three results holds
\* exactly the record of the lowest-indexed result, among the first three,
\* that has an image; it was accepted on the attempt equal to its index, the
\* results before it were fetched and not saved.
C10_FirstWithImage ==
    (/\ ~args_random
     /\ total_count = 1
     /\ Len(object_ids) >= NUM_RETRIES
     /\ ImageIndexes # {}
     /\ pc = "exit"
     /\ exit_code = 0) =>
        LET idx == LowestOf(ImageIndexes)
        IN  /\ viewed = <<DetailsResponse(catalogue, object_ids[idx])>>
            /\ attempt = idx - 1
            /\ tried = SubSeq(object_ids, 1, idx)
            /\ saved = <<object_ids[idx]>>

\* C10 witness: the first two records lack an image, the third has one, and
\* the run has ended with the third record alone in viewed.
C10_Witness ==
    /\ ~args_random
    /\ total_count = 1
    /\ Len(object_ids) >= NUM_RETRIES
    /\ ImageIndexes = {3}
    /\ pc = "exit"
    /\ exit_code = 0
    /\ Ids(viewed) = <<object_ids[3]>>
    /\ Len(tried) = 3

\* C11: a run whose argument validation fails exits with code 1 before the
\* Artwork Source is contacted: no search, no detail fetch, no save and no
\* report happen in it.
C11_ValidationFailsBeforeSource ==
    /\ [][ValidateFails => (pc' = "exit" /\ exit_code' = 1 /\ ~searched')]_vars
    /\ [][pc # "exit"]_vars
    /\ [](failure = "args" =>
             /\ pc = "exit"
             /\ exit_code = 1
             /\ ~searched
             /\ object_ids = <<>>
             /\ tried = <<>>
             /\ saved = <<>>
             /\ viewed = <<>>
             /\ reported = <<>>)

\* C11 witness: a run ended by the validation of a count=2 request.
C11_Witness ==
    /\ failure = "args"
    /\ pc = "exit"
    /\ exit_code = 1
    /\ total_count = 2

\* C12: generate_report is called at most once, only with args.report set,
\* only when all TargetCount slots are done, and with the final viewed; with
\* args.report unset it is never called; either way the run then exits 0.
C12_ReportOnceAtEnd ==
    /\ [](Len(reported) <= 1)
    /\ [](~args_report => reported = <<>>)
    /\ [](reported # <<>> =>
             /\ pc = "exit"
             /\ exit_code = 0
             /\ count = total_count
             /\ reported[1] = viewed)
    /\ []((pc = "exit" /\ exit_code = 0) =>
             /\ count = total_count
             /\ Len(reported) = (IF args_report THEN 1 ELSE 0))
    /\ [][pc = "report" =>
             (pc' = "exit" /\ exit_code' = 0 /\ viewed' = viewed)]_vars

\* C12 witness: a finished count=2 run that reported one accepted record,
\* its other slot abandoned.
C12_Witness ==
    /\ args_report
    /\ pc = "exit"
    /\ total_count = 2
    /\ abandoned = 1
    /\ Len(reported) = 1
    /\ Len(reported[1]) = 1

\* the step that rejects the fetched record
RejectingStep == pc = "filter" /\ pc' # "download"

\* C14: an attempt that is rejected leaves viewed unchanged, saves nothing,
\* leaves the slot counter unchanged and adds exactly one to attempt.
C14_RejectionFrame ==
    [][RejectingStep =>
          /\ viewed' = viewed
          /\ saved' = saved
          /\ count' = count
          /\ attempt' = attempt + 1
          /\ pc' = "inner"
          /\ skipped' \in {"missing image", "already downloaded"}]_vars

\* C14 witness: the first attempt of the second slot has just been rejected
\* while viewed holds the record of the first slot.
C14_Witness ==
    /\ pc = "inner"
    /\ count = 1
    /\ attempt = 1
    /\ Len(viewed) = 1
    /\ Len(tried) = 1
    /\ ~HasImage(tried[1])
    /\ skipped = "missing image"

\* the record has no primaryImage key, or an empty string under it
LacksImage(record) ==
    \/ PyStr("primaryImage") \notin DOMAIN record
    \/ record[PyStr("primaryImage")] = PyStr("")

\* the record's objectID is the objectID of a record of the list
IdIn(record, records) ==
    \E i \in 1..Len(records) :
        records[i][PyStr("objectID")] = record[PyStr("objectID")]

\* C15: a fetched record that lacks an image and whose identifier is already
\* in viewed is rejected with the reason 'missing image', never 'already
\* downloaded'; whatever the reason, a rejection changes the state the same
\* way.
C15_MissingImageReasonFirst ==
    /\ [][(pc = "filter" /\ LacksImage(artwork) /\ IdIn(artwork, viewed)) =>
             (pc' = "inner" /\ skipped' = "missing image")]_vars
    /\ [][RejectingStep =>
             /\ pc' = "inner"
             /\ attempt' = attempt + 1
             /\ UNCHANGED <<config, object_ids, count, viewed, object_id,
                            artwork, exit_code, failure, tried, saved,
                            reported, abandoned, searched>>]_vars

\* C15 witness: a record without an image, whose identifier is in viewed,
\* has just been rejected as missing its image.
C15_Witness ==
    /\ pc = "inner"
    /\ LacksImage(artwork)
    /\ IdIn(artwork, viewed)
    /\ skipped = "missing image"

\* the objectID of a record
IdOf(record) == DictGet(record, PyStr("objectID")).val

\* C16: on acceptance the image is saved before the record is appended, the
\* record is appended once, and the append ends the slot: viewed changes only
\* by that append, which is followed by count += 1 and the next slot.
C16_SaveThenAppendOnce ==
    /\ [][viewed' # viewed =>
             /\ pc = "append"
             /\ viewed' = Append(viewed, artwork)
             /\ saved = Append(Ids(viewed), IdOf(artwork))
             /\ saved' = saved
             /\ count' = count + 1
             /\ pc' = "outer"]_vars
    /\ [][pc = "append" => viewed' = Append(viewed, artwork)]_vars
    /\ [](pc = "append" => Len(saved) = Len(viewed) + 1)
    /\ [](pc # "append" => saved = Ids(viewed))
    /\ [](Len(viewed) <= count)

\* C16 witness: the second slot has just appended its record.
C16_Witness ==
    /\ pc = "outer"
    /\ count = 2
    /\ Len(viewed) = 2
    /\ saved = Ids(viewed)
    /\ Len(tried) = 2

\* C17: a slot makes at most NUM_RETRIES detail fetches, and attempt is 0
\* again at the start of every slot, whatever the slots before it did.
C17_BudgetPerSlot ==
    /\ [](Len(tried) <= NUM_RETRIES /\ attempt <= NUM_RETRIES)
    /\ [](pc \in {"inner", "select", "fetch"} => Len(tried) = attempt)
    /\ [](pc \in {"filter", "download", "append"} => Len(tried) = attempt + 1)
    /\ [][(pc = "outer" /\ pc' = "inner") => attempt' = 0]_vars
    /\ [][pc = "fetch" => attempt < NUM_RETRIES]_vars

\* C17 witness: the slot after an abandoned slot makes its third fetch.
C17_Witness ==
    /\ abandoned = 1
    /\ count = 1
    /\ pc = "filter"
    /\ Len(tried) = NUM_RETRIES

\* C18: a failed save ends the process with code 1 at once: the record is
\* not appended, no further slot runs, nothing is reported, and the records
\* accepted before stay in viewed.
C18_SaveFailureIsFatal ==
    /\ [][DownloadFails =>
             /\ pc' = "exit"
             /\ exit_code' = 1
             /\ viewed' = viewed
             /\ saved' = saved
             /\ reported' = reported
             /\ count' = count]_vars
    /\ [][pc # "exit"]_vars
    /\ [](failure = "save" =>
             /\ pc = "exit"
             /\ exit_code = 1
             /\ reported = <<>>
             /\ saved = Ids(viewed)
             /\ Len(viewed) + abandoned = count
             /\ count < total_count)

\* C18 witness: the save of the second slot failed, the record of the first
\* slot is still in viewed.
C18_Witness ==
    /\ failure = "save"
    /\ pc = "exit"
    /\ count = 1
    /\ Len(viewed) = 1
    /\ Len(saved) = 1

\* C19: every record of viewed has a non-empty primary image and has been
\* saved; viewed only grows, one record at a time, at its end.
C19_ViewedSavedAndStable ==
    /\ [](\A i \in 1..Len(viewed) :
             /\ ~LacksImage(viewed[i])
             /\ HasImage(IdOf(viewed[i]))
             /\ i <= Len(saved)
             /\ saved[i] = IdOf(viewed[i]))
    /\ [][/\ Len(viewed') \in {Len(viewed), Len(viewed) + 1}
          /\ SubSeq(viewed', 1, Len(viewed)) = viewed]_vars

\* C19 witness: the loop is over with two different records in viewed.
C19_Witness ==
    /\ pc = "report"
    /\ Len(viewed) = 2
    /\ viewed[1] # viewed[2]

\* the identifiers at the first NUM_RETRIES indexes of the search result
FirstResults ==
    {object_ids[i] : i \in {j \in 1..Len(object_ids) : j <= NUM_RETRIES}}

\* C20: in non-random mode every identifier fetched, saved or kept in viewed
\* is one of the first NUM_RETRIES identifiers of the search result.
C20_OnlyFirstResults ==
    ~args_random =>
        /\ pc \in {"fetch", "filter", "download", "append"} =>
              object_id \in FirstResults
        /\ \A k \in 1..Len(tried) : tried[k] \in FirstResults
        /\ \A k \in 1..Len(saved) : saved[k] \in FirstResults
        /\ \A k \in 1..Len(viewed) : IdOf(viewed[k]) \in FirstResults

\* C20 witness: a finished non-random count=2 run over four results, with
\* two records in viewed.
C20_Witness ==
    /\ ~args_random
    /\ Len(object_ids) > NUM_RETRIES
    /\ total_count = 2
    /\ pc = "exit"
    /\ exit_code = 0
    /\ Len(viewed) = 2
    /\ Len(tried) = NUM_RETRIES

====
